---- MODULE Spec2Model ----
(***************************************************************************)
(* A model of redux-orm's entity store: Backend (src/src/Backend.js) and   *)
(* the Model class (src/unnamed/part_000).                                 *)
(*                                                                         *)
(* JavaScript objects are cells of a heap, addressed by their index, so    *)
(* that `===` on objects is equality of addresses and a mutation in place  *)
(* is seen through every reference to the cell.                            *)
(***************************************************************************)
EXTENDS Integers, Sequences, FiniteSets, TLC

\* ------------------------------------------------------------- bounds
\* Identifiers are drawn from 0..MaxId (explicit ones, and the cap on
\* auto-assigned ones).
MaxId == 1
\* The longest queue of pending actions of one session.
MaxQueue == 2
\* The most entries a store's order sequence holds.
MaxItems == 2

\* ------------------------------------------------------------- values
\* No object: JavaScript's undefined where a reference is expected.
NoAddr == 0
\* JavaScript's undefined where a number is expected (_sessionCache.nextId).
Undefined == -1
\* JavaScript's NaN (Math.max of a list that holds objects).
NaN == -2

Names == {"A", "B"}
Ids == 0..MaxId

Range(s) == {s[i] : i \in DOMAIN s}

\* The empty object {}.
EmptyObj == [k \in {} |-> 0]

\* a === b on primitive field values: NaN is not equal to itself.
StrictEq(key, a, b) == IF key = "id" THEN a = b /\ a # NaN ELSE a = b

\* SameValueZero (Array.prototype.includes, lodash's find): NaN equals NaN.
Includes(idArr, id) == \E i \in DOMAIN idArr : idArr[i] = id

\* utils.objectDiff(target, source): the own properties of source that
\* target lacks or holds with another value; null (here the empty mapping)
\* when there is none.
ObjectDiff(target, source) ==
    LET ks == {key \in DOMAIN source :
                  key \notin DOMAIN target
                  \/ ~StrictEq(key, target[key], source[key])}
    IN [key \in ks |-> source[key]]

\* Object.assign({}, entity, patcher)
Assign(entity, patcher) == patcher @@ entity

\* ------------------------------------------------------------- heap
BranchCell(arr, map) == [k |-> "branch", arr |-> arr, map |-> map]
ArrCell(objs, a) == [k |-> "arr", objs |-> objs, a |-> a]
MapCell(m) == [k |-> "map", m |-> m]
ObjCell(f) == [k |-> "obj", f |-> f]

Alloc(h, cell) == [h |-> Append(h, cell), a |-> Len(h) + 1]

Ret(h, r) == [h |-> h, r |-> r, err |-> FALSE]
Throw(h) == [h |-> h, r |-> NoAddr, err |-> TRUE]

\* The keys of a set of integers in ascending order.
RECURSIVE SortedSeq(_)
SortedSeq(S) ==
    IF S = {} THEN <<>>
    ELSE LET x == CHOOSE y \in S : \A z \in S : y <= z
         IN <<x>> \o SortedSeq(S \ {x})

\* The addresses a cell refers to, in a fixed order.
Children(h, a) ==
    CASE h[a].k = "branch" ->
            IF h[a].map = NoAddr THEN <<h[a].arr>> ELSE <<h[a].arr, h[a].map>>
      [] h[a].k = "arr" -> IF h[a].objs THEN h[a].a ELSE <<>>
      [] h[a].k = "map" ->
            LET ks == SortedSeq(DOMAIN h[a].m)
            IN [i \in DOMAIN ks |-> h[a].m[ks[i]]]
      [] OTHER -> <<>>

\* The cells reachable from `todo`, each once, in order of first visit.
RECURSIVE Reach(_, _, _)
Reach(h, todo, seen) ==
    IF todo = <<>> THEN seen
    ELSE LET a == Head(todo)
         IN IF a = NoAddr \/ a \in Range(seen)
            THEN Reach(h, Tail(todo), seen)
            ELSE Reach(h, Tail(todo) \o Children(h, a), Append(seen, a))

\* Garbage collection: the heap restricted to the cells reachable from
\* `roots`, renumbered in order of first visit.  `ren` maps old addresses to
\* new ones.
Compact(h, roots) ==
    LET live == Reach(h, roots, <<>>)
        ren == [a \in Range(live) \cup {NoAddr} |->
                   IF a = NoAddr THEN NoAddr
                   ELSE CHOOSE i \in DOMAIN live : live[i] = a]
        move(c) ==
            CASE c.k = "branch" -> BranchCell(ren[c.arr], ren[c.map])
              [] c.k = "arr" ->
                    IF c.objs THEN ArrCell(TRUE, [i \in DOMAIN c.a |-> ren[c.a[i]]])
                    ELSE c
              [] c.k = "map" -> MapCell([id \in DOMAIN c.m |-> ren[c.m[id]]])
              [] OTHER -> c
    IN [h |-> [i \in DOMAIN live |-> move(h[live[i]])], ren |-> ren]

\* ------------------------------------------------------------- Backend
\* A backend is its options: [indexById, withMutations]; idAttribute, arrName
\* and mapName keep their defaults ('id', 'items', 'itemsById').
Backends == [indexById : BOOLEAN, withMutations : BOOLEAN]

\* branch[this.arrName]
Items(h, branch) == h[h[branch].arr].a
\* branch[this.mapName]
ById(h, branch) == h[h[branch].map].m

\* entity[idAttribute], undefined when the entity has no such property.
IdOf(f) == IF "id" \in DOMAIN f THEN f["id"] ELSE Undefined

\* lodash find(branch[arrName], {id: id}): the first entity whose id matches.
Find(h, arr, id) ==
    LET hits == {i \in DOMAIN arr : IdOf(h[arr[i]].f) = id}
    IN IF hits = {} THEN NoAddr
       ELSE arr[CHOOSE i \in hits : \A j \in hits : i <= j]

Backend_accessId(h, b, branch, id) ==
    IF b.indexById
    THEN IF id \in DOMAIN ById(h, branch) THEN ById(h, branch)[id] ELSE NoAddr
    ELSE Find(h, Items(h, branch), id)

Backend_accessIdList(h, b, branch) == Items(h, branch)

Backend_getDefaultState(h, b) ==
    IF b.indexById
    THEN LET a1 == Alloc(h, ArrCell(FALSE, <<>>))
             a2 == Alloc(a1.h, MapCell(EmptyObj))
             a3 == Alloc(a2.h, BranchCell(a1.a, a2.a))
         IN Ret(a3.h, a3.a)
    ELSE LET a1 == Alloc(h, ArrCell(TRUE, <<>>))
             a3 == Alloc(a1.h, BranchCell(a1.a, NoAddr))
         IN Ret(a3.h, a3.a)

\* insert with the new entry put first (unshift in place of push).
Backend_insertFirst(h, b, branch, entry) ==
    IF b.indexById
    THEN LET id == IdOf(h[entry].f)
         IN IF b.withMutations
            THEN Ret([h EXCEPT ![h[branch].arr].a = <<id>> \o @,
                               ![h[branch].map].m = (id :> entry) @@ @],
                     branch)
            ELSE LET a1 == Alloc(h, ArrCell(FALSE, <<id>> \o Items(h, branch)))
                     a2 == Alloc(a1.h, MapCell((id :> entry) @@ ById(h, branch)))
                     a3 == Alloc(a2.h, BranchCell(a1.a, a2.a))
                 IN Ret(a3.h, a3.a)
    ELSE IF b.withMutations
         THEN Ret([h EXCEPT ![h[branch].arr].a = <<entry>> \o @], branch)
         ELSE LET a1 == Alloc(h, ArrCell(TRUE, <<entry>> \o Items(h, branch)))
                  a3 == Alloc(a1.h, BranchCell(a1.a, NoAddr))
              IN Ret(a3.h, a3.a)

\* insert that pushes in place whatever withMutations says.
Backend_insertInPlace(h, b, branch, entry) ==
    IF b.indexById
    THEN Ret([h EXCEPT ![h[branch].arr].a = Append(@, IdOf(h[entry].f)),
                       ![h[branch].map].m = (IdOf(h[entry].f) :> entry) @@ @],
             branch)
    ELSE Ret([h EXCEPT ![h[branch].arr].a = Append(@, entry)], branch)

Backend_insert(h, b, branch, entry) ==
    IF b.indexById
    THEN LET id == IdOf(h[entry].f)
         IN IF b.withMutations
            THEN Ret([h EXCEPT ![h[branch].arr].a = Append(@, id),
                               ![h[branch].map].m = (id :> entry) @@ @],
                     branch)
            ELSE LET a1 == Alloc(h, ArrCell(FALSE, Append(Items(h, branch), id)))
                     a2 == Alloc(a1.h, MapCell((id :> entry) @@ ById(h, branch)))
                     a3 == Alloc(a2.h, BranchCell(a1.a, a2.a))
                 IN Ret(a3.h, a3.a)
    ELSE IF b.withMutations
         THEN Ret([h EXCEPT ![h[branch].arr].a = Append(@, entry)], branch)
         ELSE LET a1 == Alloc(h, ArrCell(TRUE, Append(Items(h, branch), entry)))
                  a3 == Alloc(a1.h, BranchCell(a1.a, NoAddr))
              IN Ret(a3.h, a3.a)

\* A patcher is [t, m]: t = "obj" is the object m, merged into the entity when
\* objectDiff finds a difference; t = "fn" is the mapping function
\* entity => Object.assign({}, entity, m), which returns a new object.
Patcher(t, m) == [t |-> t, m |-> m]

\* Backend.update's mapFunction applied to the entity at address e.
MapFunction(h, e, p) ==
    IF p.t = "fn"
    THEN LET a == Alloc(h, ObjCell(Assign(IF e = NoAddr THEN EmptyObj ELSE h[e].f, p.m)))
         IN Ret(a.h, a.a)
    ELSE IF e = NoAddr
         \* objectDiff(undefined, patcher) reads target.hasOwnProperty for
         \* each own property of the patcher
         THEN IF DOMAIN p.m = {} THEN Ret(h, e) ELSE Throw(h)
         ELSE IF DOMAIN ObjectDiff(h[e].f, p.m) # {}
              THEN LET a == Alloc(h, ObjCell(Assign(h[e].f, p.m)))
                   IN Ret(a.h, a.a)
              ELSE Ret(h, e)

\* idArr.reduce(...) of the indexed update: [h, um, err], um the updatedMap.
RECURSIVE UpdatedMap(_, _, _, _, _)
UpdatedMap(h, m, idArr, p, um) ==
    IF idArr = <<>> THEN [h |-> h, um |-> um, err |-> FALSE]
    ELSE LET id == Head(idArr)
             e == IF id \in DOMAIN m THEN m[id] ELSE NoAddr
             res == MapFunction(h, e, p)
         IN IF res.err THEN [h |-> res.h, um |-> um, err |-> TRUE]
            ELSE UpdatedMap(res.h, m, Tail(idArr), p,
                            IF res.r # e THEN (id :> res.r) @@ um ELSE um)

\* branch[arrName].map(...) of the flat update: [h, a, updated, err].
RECURSIVE FlatMap(_, _, _, _, _, _)
FlatMap(h, arr, idArr, p, out, updated) ==
    IF arr = <<>> THEN [h |-> h, a |-> out, updated |-> updated, err |-> FALSE]
    ELSE LET e == Head(arr)
         IN IF Includes(idArr, IdOf(h[e].f))
            THEN LET r1 == MapFunction(h, e, p)
                     r2 == MapFunction(r1.h, e, p)
                 IN FlatMap(r2.h, Tail(arr), idArr, p, Append(out, r2.r),
                            updated \/ r1.r # e)
            ELSE FlatMap(h, Tail(arr), idArr, p, Append(out, e), updated)

\* update without its two early exits: the copy is returned whether or not a
\* record changed.
Backend_updateAlwaysCopies(h, b, branch, hasArgs, idArr, p) ==
    IF b.indexById
    THEN LET c == IF b.withMutations THEN [h |-> h, r |-> branch]
                  ELSE LET a2 == Alloc(h, MapCell(ById(h, branch)))
                           a3 == Alloc(a2.h, BranchCell(h[branch].arr, a2.a))
                       IN [h |-> a3.h, r |-> a3.a]
         IN IF ~hasArgs THEN Throw(c.h)
            ELSE LET u == UpdatedMap(c.h, ById(h, branch), idArr, p, EmptyObj)
                 IN IF u.err THEN Throw(u.h)
                    ELSE Ret([u.h EXCEPT ![u.h[c.r].map].m = u.um @@ @], c.r)
    ELSE IF ~hasArgs /\ Items(h, branch) # <<>>
         THEN Throw(h)
         ELSE LET fm == FlatMap(h, Items(h, branch), idArr, p, <<>>, FALSE)
              IN IF fm.err THEN Throw(fm.h)
                 ELSE LET a1 == Alloc(fm.h, ArrCell(TRUE, fm.a))
                      IN IF b.withMutations
                         THEN Ret([a1.h EXCEPT ![branch].arr = a1.a], branch)
                         ELSE LET a3 == Alloc(a1.h, BranchCell(a1.a, NoAddr))
                              IN Ret(a3.h, a3.a)

\* update(branch, idArr, patcher).  hasArgs is FALSE when idArr and patcher
\* are both undefined (the payload has no idArr and no updater property).
Backend_update(h, b, branch, hasArgs, idArr, p) ==
    IF b.indexById
    THEN LET c == IF b.withMutations THEN [h |-> h, r |-> branch]
                  ELSE LET a2 == Alloc(h, MapCell(ById(h, branch)))
                           a3 == Alloc(a2.h, BranchCell(h[branch].arr, a2.a))
                       IN [h |-> a3.h, r |-> a3.a]
         IN IF ~hasArgs THEN Throw(c.h)     \* undefined.reduce
            ELSE LET u == UpdatedMap(c.h, ById(h, branch), idArr, p, EmptyObj)
                 IN IF u.err THEN Throw(u.h)
                    ELSE IF DOMAIN u.um # {}
                         THEN Ret([u.h EXCEPT ![u.h[c.r].map].m = u.um @@ @], c.r)
                         ELSE Ret(u.h, branch)
    ELSE IF ~hasArgs /\ Items(h, branch) # <<>>
         THEN Throw(h)                      \* undefined.includes
         ELSE LET fm == FlatMap(h, Items(h, branch), idArr, p, <<>>, FALSE)
              IN IF fm.err THEN Throw(fm.h)
                 ELSE LET a1 == Alloc(fm.h, ArrCell(TRUE, fm.a))
                      IN IF b.withMutations
                         THEN Ret([a1.h EXCEPT ![branch].arr = a1.a], branch)
                         ELSE IF fm.updated
                              THEN LET a3 == Alloc(a1.h, BranchCell(a1.a, NoAddr))
                                   IN Ret(a3.h, a3.a)
                              ELSE Ret(a1.h, branch)

\* accessList(branch): one object per element x of the order sequence,
\* Object.assign({id: x}, accessId(branch, x)).  In the flat form x is the
\* entity object itself, which find() matches against no entity's id, so the
\* result is {id: x}: [f, idObj] with idObj the address of x.  In the indexed
\* form idObj is NoAddr and f the merged fields.
Backend_accessList(h, b, branch) ==
    LET arr == Items(h, branch)
    IN IF b.indexById
       THEN [i \in DOMAIN arr |->
               LET obj == Backend_accessId(h, b, branch, arr[i])
               IN [f |-> Assign("id" :> arr[i],
                                IF obj = NoAddr THEN EmptyObj ELSE h[obj].f),
                   idObj |-> NoAddr]]
       ELSE [i \in DOMAIN arr |-> [f |-> EmptyObj, idObj |-> arr[i]]]

\* The position of a value in lodash's ascending order of one property:
\* strings by code unit, numbers by value, undefined last.
SortRank(f, key) ==
    IF key \notin DOMAIN f THEN 99
    ELSE IF key = "name" THEN (IF f[key] = "A" THEN 1 ELSE 2)
    ELSE f[key]

\* lodash sortByOrder(list, key): a stable ascending sort.  rank[i] is the
\* rank of list[i].
RECURSIVE StableSort(_, _)
StableSort(list, rank) ==
    IF list = <<>> THEN <<>>
    ELSE LET n == Len(list)
             \* the first element of least rank
             i == CHOOSE j \in 1..n :
                     /\ \A l \in 1..n : rank[j] <= rank[l]
                     /\ \A l \in 1..(j - 1) : rank[l] > rank[j]
             drop(s) == [l \in 1..(n - 1) |-> IF l < i THEN s[l] ELSE s[l + 1]]
         IN <<list[i]>> \o StableSort(drop(list), drop(rank))

\* order that builds the branch it returns without the index map.
Backend_orderDropsMap(h, b, branch, key) ==
    IF b.indexById
    THEN LET fullList == Backend_accessList(h, b, branch)
             sorted == StableSort(fullList,
                                  [i \in DOMAIN fullList |-> SortRank(fullList[i].f, key)])
             a1 == Alloc(h, ArrCell(FALSE, [i \in DOMAIN sorted |-> IdOf(sorted[i].f)]))
         IN IF b.withMutations
            THEN Ret([a1.h EXCEPT ![branch].arr = a1.a], branch)
            ELSE LET a3 == Alloc(a1.h, BranchCell(a1.a, NoAddr))
                 IN Ret(a3.h, a3.a)
    ELSE LET arr == Items(h, branch)
             sorted == StableSort(arr, [i \in DOMAIN arr |-> SortRank(h[arr[i]].f, key)])
             a1 == Alloc(h, ArrCell(TRUE, sorted))
         IN IF b.withMutations
            THEN Ret([a1.h EXCEPT ![branch].arr = a1.a], branch)
            ELSE LET a3 == Alloc(a1.h, BranchCell(a1.a, NoAddr))
                 IN Ret(a3.h, a3.a)

\* order(branch, iteratees, orders) with one property name as iteratees and
\* orders undefined (ascending), as updateReducer calls it.
Backend_order(h, b, branch, key) ==
    IF b.indexById
    THEN LET fullList == Backend_accessList(h, b, branch)
             sorted == StableSort(fullList,
                                  [i \in DOMAIN fullList |-> SortRank(fullList[i].f, key)])
             a1 == Alloc(h, ArrCell(FALSE, [i \in DOMAIN sorted |-> IdOf(sorted[i].f)]))
         IN IF b.withMutations
            THEN Ret([a1.h EXCEPT ![branch].arr = a1.a], branch)
            ELSE LET a3 == Alloc(a1.h, BranchCell(a1.a, h[branch].map))
                 IN Ret(a3.h, a3.a)
    ELSE LET arr == Items(h, branch)
             sorted == StableSort(arr, [i \in DOMAIN arr |-> SortRank(h[arr[i]].f, key)])
             a1 == Alloc(h, ArrCell(TRUE, sorted))
         IN IF b.withMutations
            THEN Ret([a1.h EXCEPT ![branch].arr = a1.a], branch)
            ELSE LET a3 == Alloc(a1.h, BranchCell(a1.a, NoAddr))
                 IN Ret(a3.h, a3.a)

\* s without its element at position i (arr.splice(i, 1)).
Splice(s, i) == [l \in 1..(Len(s) - 1) |-> IF l < i THEN s[l] ELSE s[l + 1]]

\* The first position of x in s, 0 when there is none (arr.indexOf(x) + 1).
IndexOf(s, x) ==
    IF \E i \in DOMAIN s : s[i] = x
    THEN CHOOSE i \in DOMAIN s : s[i] = x /\ \A j \in 1..(i - 1) : s[j] # x
    ELSE 0

\* The forEach of the indexed delete in place: [arr, m].
RECURSIVE DeleteEachIndexed(_, _, _)
DeleteEachIndexed(arr, m, ids) ==
    IF ids = <<>> THEN [arr |-> arr, m |-> m]
    ELSE LET id == Head(ids)
             idx == IF id = NaN THEN 0 ELSE IndexOf(arr, id)
         IN DeleteEachIndexed(IF idx # 0 THEN Splice(arr, idx) ELSE arr,
                              [x \in DOMAIN m \ {id} |-> m[x]],
                              Tail(ids))

\* The forEach of the flat delete in place.  arr holds entity objects and
\* ids holds identifiers, so arr.indexOf(id) is -1 for every id and
\* arr.splice(-1, 1) removes the last element.
RECURSIVE DeleteEachFlat(_, _)
DeleteEachFlat(arr, ids) ==
    IF ids = <<>> THEN arr
    ELSE DeleteEachFlat(IF arr = <<>> THEN arr ELSE Splice(arr, Len(arr)), Tail(ids))

\* delete that splices in place whatever withMutations says.
Backend_deleteInPlace(h, b, branch, idsToDelete) ==
    LET arr == Items(h, branch)
    IN IF b.indexById
       THEN LET d == DeleteEachIndexed(arr, ById(h, branch), idsToDelete)
            IN Ret([h EXCEPT ![h[branch].arr].a = d.arr,
                             ![h[branch].map].m = d.m],
                   branch)
       ELSE Ret([h EXCEPT ![h[branch].arr].a = DeleteEachFlat(arr, idsToDelete)],
                branch)

Backend_delete(h, b, branch, idsToDelete) ==
    LET arr == Items(h, branch)
    IN IF b.indexById
       THEN IF b.withMutations
            THEN LET d == DeleteEachIndexed(arr, ById(h, branch), idsToDelete)
                 IN Ret([h EXCEPT ![h[branch].arr].a = d.arr,
                                  ![h[branch].map].m = d.m],
                        branch)
            ELSE LET keep(id) == ~Includes(idsToDelete, id)
                     m == ById(h, branch)
                     a1 == Alloc(h, ArrCell(FALSE, SelectSeq(arr, keep)))
                     a2 == Alloc(a1.h, MapCell([x \in DOMAIN m \ Range(idsToDelete) |-> m[x]]))
                     a3 == Alloc(a2.h, BranchCell(a1.a, a2.a))
                 IN Ret(a3.h, a3.a)
       ELSE IF b.withMutations
            THEN Ret([h EXCEPT ![h[branch].arr].a = DeleteEachFlat(arr, idsToDelete)],
                     branch)
            ELSE LET keep(e) == ~Includes(idsToDelete, IdOf(h[e].f))
                     a1 == Alloc(h, ArrCell(TRUE, SelectSeq(arr, keep)))
                     a3 == Alloc(a1.h, BranchCell(a1.a, NoAddr))
                 IN Ret(a3.h, a3.a)

\* ------------------------------------------------------------- Model
\* An action of the update queue.  payload is the address of the CREATE's
\* props object; idArr and updater (a patcher) are the UPDATE payload's
\* properties (hasArgs is FALSE when the payload has neither, as the payload
\* of a field setter, kept in raw); key is the ORDER payload; ids the DELETE
\* payload.
\* auto and user record, for a CREATE, whether the identifier was assigned by
\* create and the properties the caller gave.
Action(type, payload, hasArgs, idArr, updater, raw, key, ids, auto, user) ==
    [type |-> type, payload |-> payload, hasArgs |-> hasArgs, idArr |-> idArr,
     updater |-> updater, raw |-> raw, key |-> key, ids |-> ids,
     auto |-> auto, user |-> user]

\* The updater of an action that has none.
NoPatcher == Patcher("obj", EmptyObj)

CreateAction(payload, auto, user) ==
    Action("CREATE", payload, FALSE, <<>>, NoPatcher, EmptyObj, "", <<>>, auto, user)
UpdateAction(idArr, updater) ==
    Action("UPDATE", NoAddr, TRUE, idArr, updater, EmptyObj, "", <<>>, FALSE, EmptyObj)
SetterAction(raw) ==
    Action("UPDATE", NoAddr, FALSE, <<>>, NoPatcher, raw, "", <<>>, FALSE, EmptyObj)
OrderAction(key) ==
    Action("ORDER", NoAddr, FALSE, <<>>, NoPatcher, EmptyObj, key, <<>>, FALSE, EmptyObj)
DeleteAction(ids) ==
    Action("DELETE", NoAddr, FALSE, <<>>, NoPatcher, EmptyObj, "", ids, FALSE, EmptyObj)

\* Model.addUpdate -> session.addUpdate: the update is appended to the
\* session's queue.
Model_addUpdate(q, update) == Append(q, update)

\* a > b on numbers: false when either is NaN.
JsGt(a, b) == a # NaN /\ b # NaN /\ a > b
\* x + 1 and x++ on numbers.
JsInc(x) == IF x = NaN THEN NaN ELSE x + 1

\* Math.max(...idArr): NaN when an element is not a number (an entity object
\* of the flat form) or is NaN.
MathMax(h, st) ==
    LET arr == h[h[st].arr]
    IN IF arr.objs \/ NaN \in Range(arr.a) THEN NaN
       ELSE CHOOSE x \in Range(arr.a) : \A y \in Range(arr.a) : y <= x

\* Model.nextId(): [v, err], v the value returned, which is also the value
\* of _sessionCache.nextId afterwards.
Model_nextId(h, b, st, cache) ==
    IF cache # Undefined THEN [v |-> cache, err |-> FALSE]
    ELSE IF st = NoAddr THEN [v |-> Undefined, err |-> TRUE]
    ELSE LET idArr == Backend_accessIdList(h, b, st)
         IN IF Len(idArr) = 0 THEN [v |-> 0, err |-> FALSE]
            ELSE [v |-> JsInc(MathMax(h, st)), err |-> FALSE]

\* A Model instance: _fields is the object given to the constructor (not a
\* copy), fieldNames its own property names, vals the values the field
\* getters captured in _initFields.
NoInstance == [has |-> FALSE, fields |-> NoAddr, fieldNames |-> {}, vals |-> EmptyObj]
NewInstance(h, props) ==
    [has |-> TRUE, fields |-> props,
     fieldNames |-> IF props = NoAddr THEN {} ELSE DOMAIN h[props].f,
     vals |-> IF props = NoAddr THEN EmptyObj ELSE h[props].f]

\* create that also writes the new entity into the session's state at once.
Model_createEager(h, b, st, q, cache, userProps) ==
    LET nid == Model_nextId(h, b, st, cache)
        auto == "id" \notin DOMAIN userProps
        props == IF auto THEN Assign(userProps, "id" :> nid.v) ELSE userProps
        cache2 == IF auto THEN JsInc(nid.v)
                  ELSE IF JsGt(userProps["id"], nid.v) THEN userProps["id"] + 1
                  ELSE nid.v
        a == Alloc(h, ObjCell(props))
        w == Backend_insert(a.h, [b EXCEPT !.withMutations = TRUE], st, a.a)
    IN IF nid.err
       THEN [h |-> h, q |-> q, cache |-> cache, inst |-> NoInstance, err |-> TRUE]
       ELSE [h |-> w.h,
             q |-> Model_addUpdate(q, CreateAction(a.a, auto, userProps)),
             cache |-> cache2,
             inst |-> NewInstance(w.h, a.a),
             err |-> FALSE]

\* Model.create(userProps): [h, q, cache, inst, err].
Model_create(h, b, st, q, cache, userProps) ==
    LET nid == Model_nextId(h, b, st, cache)
        auto == "id" \notin DOMAIN userProps
        props == IF auto THEN Assign(userProps, "id" :> nid.v) ELSE userProps
        cache2 == IF auto THEN JsInc(nid.v)
                  ELSE IF JsGt(userProps["id"], nid.v) THEN userProps["id"] + 1
                  ELSE nid.v
        a == Alloc(h, ObjCell(props))
    IN IF nid.err
       THEN [h |-> h, q |-> q, cache |-> cache, inst |-> NoInstance, err |-> TRUE]
       ELSE [h |-> a.h,
             q |-> Model_addUpdate(q, CreateAction(a.a, auto, userProps)),
             cache |-> cache2,
             inst |-> NewInstance(a.h, a.a),
             err |-> FALSE]

\* Model.withId(id): [inst, err]; accessId reads this.state.
Model_withId(h, b, st, id) ==
    IF st = NoAddr THEN [inst |-> NoInstance, err |-> TRUE]
    ELSE [inst |-> NewInstance(h, Backend_accessId(h, b, st, id)), err |-> FALSE]

\* instance.toPlain(): the _fields value of every field name.
Instance_toPlain(h, inst) == [n \in inst.fieldNames |-> h[inst.fields].f[n]]

\* instance.getId(): [v, err]; this._fields[idAttribute].
Instance_getId(h, inst) ==
    IF inst.fields = NoAddr THEN [v |-> Undefined, err |-> TRUE]
    ELSE [v |-> IdOf(h[inst.fields].f), err |-> FALSE]

\* The setter _initFields defines for an own field: [q, err].
Instance_setField(h, inst, q, fieldName, value) ==
    LET id == Instance_getId(h, inst)
    IN IF id.err THEN [q |-> q, err |-> TRUE]
       ELSE [q |-> Model_addUpdate(q, SetterAction(Assign("id" :> id.v, fieldName :> value))),
             err |-> FALSE]

\* instance.update(userMergeObj) of a model that declares no relation
\* fields: [q, err].
Instance_update(h, inst, q, userMergeObj) ==
    LET id == Instance_getId(h, inst)
    IN IF id.err THEN [q |-> q, err |-> TRUE]
       ELSE [q |-> Model_addUpdate(q, UpdateAction(<<id.v>>, Patcher("obj", userMergeObj))),
             err |-> FALSE]

\* instance.delete() of a model without virtual fields (_onDelete loops over
\* none): [q, err].
Instance_delete(h, inst, q) ==
    LET id == Instance_getId(h, inst)
    IN IF id.err THEN [q |-> q, err |-> TRUE]
       ELSE [q |-> Model_addUpdate(q, DeleteAction(<<id.v>>)), err |-> FALSE]

\* Model.setOrder(orderArg)
Model_setOrder(q, orderArg) == Model_addUpdate(q, OrderAction(orderArg))

\* Model.updateReducer(state, action)
Model_updateReducer(h, b, s, action) ==
    CASE action.type = "CREATE" -> Backend_insert(h, b, s, action.payload)
      [] action.type = "UPDATE" ->
            Backend_update(h, b, s, action.hasArgs, action.idArr, action.updater)
      [] action.type = "ORDER" -> Backend_order(h, b, s, action.key)
      [] action.type = "DELETE" -> Backend_delete(h, b, s, action.ids)
      [] OTHER -> Ret(h, s)

\* updates.reduce(updateReducer, state); an exception ends the fold.
RECURSIVE Reduce(_, _, _, _)
Reduce(h, b, s, q) ==
    IF q = <<>> THEN Ret(h, s)
    ELSE LET r == Model_updateReducer(h, b, s, Head(q))
         IN IF r.err THEN r ELSE Reduce(r.h, b, r.r, Tail(q))

\* getNextState without the test for an undefined state: the first backend
\* call reads a property of undefined.
Model_getNextStateNoTest(h, b, st, q) ==
    IF st = NoAddr THEN (IF q = <<>> THEN Ret(h, NoAddr) ELSE Throw(h))
    ELSE Reduce(h, b, st, q)

\* getNextState that takes an empty queue for an uninitialised store.
Model_getNextStateEmptyQueue(h, b, st, q) ==
    IF st = NoAddr \/ q = <<>> THEN Backend_getDefaultState(h, b)
    ELSE Reduce(h, b, st, q)

\* Model.getNextState()
Model_getNextState(h, b, st, q) ==
    IF st = NoAddr THEN Backend_getDefaultState(h, b)
    ELSE Reduce(h, b, st, q)

\* ------------------------------------------------------------- state
VARIABLES
    cfg,          \* the options of the model's Backend instance
    heap,         \* the JavaScript heap: a sequence of cells
    state,        \* session.getState(modelName): a branch, or NoAddr (undefined)
    updates,      \* session.getUpdatesFor(Model): the pending actions
    nextIdCache,  \* Model._sessionCache.nextId, or Undefined
    handle,       \* the Model instance the caller obtained last
    result,       \* what the last getNextState of the session returned
    threw,        \* whether the last getNextState threw
    folded,       \* whether getNextState was called in this session
    pre,          \* heap, state and queue when the last getNextState was called,
                  \* and whether it had been called before in the session
    post          \* heap and outcome of the last getNextState

vars == <<cfg, heap, state, updates, nextIdCache, handle, result, threw, folded,
          pre, post>>

NoSnapshot == [h |-> <<>>, s |-> NoAddr, q |-> <<>>, again |-> FALSE]
NoOutcome == Ret(<<>>, NoAddr)

\* The CREATE actions of a queue.
NumCreates(q) == Cardinality({i \in DOMAIN q : q[i].type = "CREATE"})

\* The heap is garbage collected, with the variables that hold references as
\* the roots.
Install(h2, s2, q2, i2, r2) ==
    LET roots == <<s2, r2, i2.fields>> \o [i \in DOMAIN q2 |-> q2[i].payload]
        c == Compact(h2, roots)
    IN /\ heap' = c.h
       /\ state' = c.ren[s2]
       /\ result' = c.ren[r2]
       /\ handle' = [i2 EXCEPT !.fields = c.ren[@]]
       /\ updates' = [i \in DOMAIN q2 |-> [q2[i] EXCEPT !.payload = c.ren[@]]]

Init ==
    /\ cfg \in Backends
    /\ \E defined \in BOOLEAN :
         LET d == Backend_getDefaultState(<<>>, cfg)
         IN IF defined THEN heap = d.h /\ state = d.r
            ELSE heap = <<>> /\ state = NoAddr
    /\ updates = <<>>
    /\ nextIdCache = Undefined
    /\ handle = NoInstance
    /\ result = NoAddr
    /\ threw = FALSE
    /\ folded = FALSE
    /\ pre = NoSnapshot
    /\ post = NoOutcome

\* The properties a caller gives to create: a name, with or without an id.
UserProps == [name : Names] \cup [id : Ids, name : Names]
\* The objects a caller gives to instance.update.
MergeObjs == [name : Names]
OrderArgs == {"name"}

\* Calls are recorded until getNextState is called, then the session ends.
CanEnqueue == ~folded /\ Len(updates) < MaxQueue

\* Model.create(userProps)
Create(userProps) ==
    /\ CanEnqueue
    /\ state # NoAddr =>
         /\ Len(Items(heap, state)) + NumCreates(updates) < MaxItems
         /\ "id" \notin DOMAIN userProps =>
              LET v == Model_nextId(heap, cfg, state, nextIdCache).v
              IN v = NaN \/ v <= MaxId
    /\ LET c == Model_create(heap, cfg, state, updates, nextIdCache, userProps)
       IN /\ heap' = c.h
          /\ updates' = c.q
          /\ nextIdCache' = c.cache
          /\ handle' = IF c.err THEN handle ELSE c.inst
    /\ UNCHANGED <<cfg, state, result, threw, folded, pre, post>>

\* Model.withId(id).name = value
SetField(id, value) ==
    /\ CanEnqueue
    /\ LET w == Model_withId(heap, cfg, state, id)
           u == Instance_setField(heap, w.inst, updates, "name", value)
       IN /\ ~w.err
          /\ "name" \in w.inst.fieldNames
          /\ handle' = w.inst
          /\ updates' = u.q
    /\ UNCHANGED <<cfg, heap, state, nextIdCache, result, threw, folded, pre, post>>

\* Model.withId(id).update(mergeObj)
Update(id, mergeObj) ==
    /\ CanEnqueue
    /\ LET w == Model_withId(heap, cfg, state, id)
           u == Instance_update(heap, w.inst, updates, mergeObj)
       IN /\ ~w.err
          /\ handle' = w.inst
          /\ updates' = u.q
    /\ UNCHANGED <<cfg, heap, state, nextIdCache, result, threw, folded, pre, post>>

\* Model.withId(id).delete()
Delete(id) ==
    /\ CanEnqueue
    /\ LET w == Model_withId(heap, cfg, state, id)
           u == Instance_delete(heap, w.inst, updates)
       IN /\ ~w.err
          /\ handle' = w.inst
          /\ updates' = u.q
    /\ UNCHANGED <<cfg, heap, state, nextIdCache, result, threw, folded, pre, post>>

\* Model.setOrder(orderArg)
SetOrder(orderArg) ==
    /\ CanEnqueue
    /\ updates' = Model_setOrder(updates, orderArg)
    /\ UNCHANGED <<cfg, heap, state, nextIdCache, handle, result, threw, folded,
                   pre, post>>

\* Model.getNextState()
GetNextState ==
    /\ state # NoAddr => Len(Items(heap, state)) + NumCreates(updates) <= MaxItems
    /\ LET g == Model_getNextState(heap, cfg, state, updates)
       IN /\ Install(g.h, state, updates, handle, g.r)
          /\ threw' = g.err
          /\ post' = g
    /\ pre' = [h |-> heap, s |-> state, q |-> updates, again |-> folded]
    /\ folded' = TRUE
    /\ UNCHANGED <<cfg, nextIdCache>>

\* A connect that keeps the next-identifier counter of the session before.
NewSessionKeepsNextId(next) ==
    /\ Install(heap, next, <<>>, NoInstance, NoAddr)
    /\ threw' = FALSE
    /\ folded' = FALSE
    /\ pre' = NoSnapshot
    /\ post' = NoOutcome
    /\ UNCHANGED <<cfg, nextIdCache>>

\* The next session: the store of the surrounding state container now holds
\* `next`, the queue is empty and Model.connect has cleared the session
\* cache.  The caller's instance went out of scope.
NewSession(next) ==
    /\ Install(heap, next, <<>>, NoInstance, NoAddr)
    /\ nextIdCache' = Undefined
    /\ threw' = FALSE
    /\ folded' = FALSE
    /\ pre' = NoSnapshot
    /\ post' = NoOutcome
    /\ UNCHANGED cfg

\* The state getNextState returned becomes the store's state.
Commit ==
    /\ folded /\ ~threw
    /\ NewSession(result)

\* The session is dropped without its result being stored.
Discard ==
    /\ folded \/ updates # <<>>
    /\ NewSession(state)

Next ==
    \/ \E userProps \in UserProps : Create(userProps)
    \/ \E id \in Ids, value \in Names : SetField(id, value)
    \/ \E id \in Ids, mergeObj \in MergeObjs : Update(id, mergeObj)
    \/ \E id \in Ids : Delete(id)
    \/ \E orderArg \in OrderArgs : SetOrder(orderArg)
    \/ GetNextState
    \/ Commit
    \/ Discard

Spec == Init /\ [][Next]_vars

\* ------------------------------------------------------------- reducer
\* Model.updateReducer applied to one action at a time, from the default
\* state: `updates` holds the action just applied, `pre` and `post` the
\* heap before and after it.
InitReducer ==
    /\ cfg \in Backends
    /\ LET d == Backend_getDefaultState(<<>>, cfg)
       IN heap = d.h /\ state = d.r
    /\ updates = <<>>
    /\ nextIdCache = Undefined
    /\ handle = NoInstance
    /\ result = NoAddr
    /\ threw = FALSE
    /\ folded = FALSE
    /\ pre = NoSnapshot
    /\ post = NoOutcome

\* The identifiers stored in a branch.
StoreIds(h, s) ==
    IF h[s].map # NoAddr THEN Range(Items(h, s)) \cup DOMAIN ById(h, s)
    ELSE {IdOf(h[Items(h, s)[i]].f) : i \in DOMAIN Items(h, s)}

\* The arrays of identifiers an UPDATE or DELETE payload names.
IdArrs == {SortedSeq(S) : S \in SUBSET Ids}
\* The patchers of an UPDATE payload.
Patchers ==
    {Patcher("obj", m) : m \in [name : Names] \cup [id : Ids] \cup {EmptyObj}}
    \cup {Patcher("fn", m) : m \in [name : Names]}

\* The store after one reducer call: the returned state, or the state the
\* caller still holds when the call threw.
Settle(h, action, r, c, kept) ==
    /\ post' = r
    /\ heap' = c.h
    /\ state' = c.ren[kept]
    /\ threw' = r.err
    /\ pre' = [h |-> h, s |-> state, q |-> <<action>>, again |-> FALSE]
    /\ updates' = <<action>>
    /\ UNCHANGED <<cfg, nextIdCache, handle, result, folded>>

Kept(r) == IF r.err THEN state ELSE r.r

Settled(h, action, r) == Settle(h, action, r, Compact(r.h, <<Kept(r)>>), Kept(r))

\* updateReducer(state, action) for an action whose CREATE payload, if any,
\* is at the top of heap h.
Reduce1(h, action) == Settled(h, action, Model_updateReducer(h, cfg, state, action))

ReduceCreate(props) ==
    /\ Len(Items(heap, state)) < MaxItems
    /\ props["id"] \notin StoreIds(heap, state)
    /\ LET a == Alloc(heap, ObjCell(props))
       IN Reduce1(a.h, CreateAction(a.a, FALSE, props))

\* A mapping function is given entities of the store only.
ReduceUpdate(idArr, p) ==
    /\ p.t = "fn" => Range(idArr) \subseteq StoreIds(heap, state)
    /\ Reduce1(heap, UpdateAction(idArr, p))

ReduceOrder(key) ==
    /\ state # NoAddr
    /\ Reduce1(heap, OrderAction(key))

ReduceDelete(ids) ==
    /\ state # NoAddr
    /\ Reduce1(heap, DeleteAction(ids))

NextReducer ==
    \/ \E props \in [id : Ids, name : Names] : ReduceCreate(props)
    \/ \E idArr \in IdArrs, p \in Patchers : ReduceUpdate(idArr, p)
    \/ \E key \in OrderArgs : ReduceOrder(key)
    \/ \E ids \in IdArrs : ReduceDelete(ids)

SpecReducer == InitReducer /\ [][NextReducer]_vars

\* ------------------------------------------------------------- lookup
\* Model.get over the states the reducer builds.  After a get, `pre` holds
\* the heap, the state and the lookup object of the call and `post` its
\* outcome: the props of the instance returned, or the Error thrown.

\* A thrown Error with its message.
ThrowError(h, msg) == [h |-> h, r |-> NoAddr, err |-> TRUE, msg |-> msg]
\* A returned value of a call that can throw an Error.
Return(h, r) == [h |-> h, r |-> r, err |-> FALSE, msg |-> ""]

NoEntitiesFound == "No entities found for model"
InstanceNotFound == "Model instance not found when calling get method"

\* utils.match(lookupObj, entity): every property of lookupObj is a property
\* of the entity with the same value.
Match(lookupObj, f) ==
    \A key \in DOMAIN lookupObj :
        key \in DOMAIN f /\ StrictEq(key, f[key], lookupObj[key])

\* Backend.iterator(branch): the values the ListIterator yields, in order:
\* the entities of the flat form, branch[mapName][id] for each id of the
\* indexed form (NoAddr where the map has no such key).
Backend_iterator(h, b, branch) ==
    LET list == Items(h, branch)
    IN IF b.indexById
       THEN [i \in DOMAIN list |->
               IF list[i] \in DOMAIN ById(h, branch) THEN ById(h, branch)[list[i]]
               ELSE NoAddr]
       ELSE list

\* Model.get(lookupObj): the address of the props of the instance returned,
\* or the Error thrown.
Model_get(h, b, st, lookupObj) ==
    IF Len(Backend_accessIdList(h, b, st)) = 0
    THEN ThrowError(h, NoEntitiesFound)
    ELSE IF "id" \in DOMAIN lookupObj
         THEN LET props == Backend_accessId(h, b, st, lookupObj["id"])
              IN IF props # NoAddr THEN Return(h, props)
                 ELSE ThrowError(h, InstanceNotFound)
         ELSE LET values == Backend_iterator(h, b, st)
                  hits == {i \in DOMAIN values :
                              values[i] # NoAddr /\ Match(lookupObj, h[values[i]].f)}
              IN IF hits = {} THEN ThrowError(h, InstanceNotFound)
                 ELSE Return(h, values[CHOOSE i \in hits : \A j \in hits : i <= j])

\* The objects a caller gives to get.
LookupObjs == [name : Names] \cup [id : Ids] \cup [id : Ids, name : Names]

\* Model.get(lookupObj)
Get(lookupObj) ==
    /\ post' = Model_get(heap, cfg, state, lookupObj)
    /\ pre' = [h |-> heap, s |-> state, q |-> <<>>, again |-> FALSE,
               lookupObj |-> lookupObj]
    /\ updates' = <<>>
    /\ UNCHANGED <<cfg, heap, state, nextIdCache, handle, result, threw, folded>>

NextLookup ==
    \/ NextReducer
    \/ \E lookupObj \in LookupObjs : Get(lookupObj)

SpecLookup == InitReducer /\ [][NextLookup]_vars

\* ------------------------------------------------------------- relations
\* Two models in one session.  `updates` is the session's whole queue, each
\* action stamped with the name of its model, `state` the branch of the
\* model whose store the specification folds.

\* null
Null == -3

\* Model.addUpdate: update.meta = {name: this.modelName}, then
\* session.addUpdate(update).
Model_addUpdateOf(modelName, q, update) ==
    Model_addUpdate(q, [meta |-> modelName] @@ update)

\* The stamp of Model.addUpdate on the actions a call of model modelName
\* appended to the queue.
Stamp(modelName, q) ==
    [i \in DOMAIN q |->
        IF "meta" \in DOMAIN q[i] THEN q[i] ELSE [meta |-> modelName] @@ q[i]]

\* session.getUpdatesFor(Model): the actions stamped with the model's name.
Session_getUpdatesFor(modelName, q) ==
    LET own(u) == u.meta = modelName
    IN SelectSeq(q, own)

\* utils.normalizeEntity(entity): the identifier of a Model instance, any
\* other value as it is.
NormalizeEntity(entity) == IF entity.isModel THEN entity.getId ELSE entity.value

\* The values a caller gives for a relation: an identifier, or an instance.
Refs(S) == [isModel : {FALSE}, value : S] \cup [isModel : {TRUE}, getId : S]

\* The identifiers, in store order, of the entities of an indexed branch
\* whose field holds the value: the idArr of the QuerySet
\* Model.filter({[field]: value}).
Related(h, st, field, value) ==
    LET byId == ById(h, st)
        hit(id) == /\ id \in DOMAIN byId
                   /\ field \in DOMAIN h[byId[id]].f
                   /\ h[byId[id]].f[field] = value
    IN SelectSeq(Items(h, st), hit)

\* QuerySet.update(mergeObj): one UPDATE for the identifiers of the query
\* set.
QuerySet_update(modelName, q, idArr, mergeObj) ==
    Model_addUpdateOf(modelName, q, UpdateAction(idArr, Patcher("obj", mergeObj)))

\* QuerySet.delete(): one DELETE for the identifiers of the query set.
QuerySet_delete(modelName, q, idArr) ==
    Model_addUpdateOf(modelName, q, DeleteAction(idArr))

\* ---- a foreign key: Book.author = fk('Author'); the store is Book's.
\* The Author store holds an author for every identifier of Ids.

\* book.update(userMergeObj) for the foreign key field: [q, err].
Book_update(h, inst, q, ref) ==
    LET id == Instance_getId(h, inst)
        mergeObj == [author |-> NormalizeEntity(ref)]
    IN IF id.err THEN [q |-> q, err |-> TRUE]
       ELSE [q |-> Model_addUpdateOf("Book", q,
                       UpdateAction(<<id.v>>, Patcher("obj", mergeObj))),
             err |-> FALSE]

\* _onDelete of an Author instance: its virtual field bookSet is the
\* reverse of the foreign key.
Author_onDelete(h, st, q, id) ==
    LET relatedQs == Related(h, st, "author", id)
    IN IF relatedQs # <<>>
       THEN QuerySet_update("Book", q, relatedQs, [author |-> Null])
       ELSE q

\* author.delete()
Author_delete(h, st, q, id) ==
    Author_onDelete(h, st, Model_addUpdateOf("Author", q, DeleteAction(<<id>>)), id)

InitBooks ==
    /\ cfg \in {b \in Backends : b.indexById}
    /\ LET d == Backend_getDefaultState(<<>>, cfg)
       IN heap = d.h /\ state = d.r
    /\ updates = <<>>
    /\ nextIdCache = Undefined
    /\ handle = NoInstance
    /\ result = NoAddr
    /\ threw = FALSE
    /\ folded = FALSE
    /\ pre = NoSnapshot
    /\ post = NoOutcome

BookProps == [author : Ids \cup {Null}] \cup [id : Ids, author : Ids \cup {Null}]

\* Book.create(userProps)
CreateBook(userProps) ==
    /\ CanEnqueue
    /\ Len(Items(heap, state)) + NumCreates(updates) < MaxItems
    /\ "id" \notin DOMAIN userProps =>
          Model_nextId(heap, cfg, state, nextIdCache).v <= MaxId
    /\ LET c == Model_create(heap, cfg, state, updates, nextIdCache, userProps)
       IN /\ heap' = c.h
          /\ updates' = Stamp("Book", c.q)
          /\ nextIdCache' = c.cache
          /\ handle' = c.inst
    /\ UNCHANGED <<cfg, state, result, threw, folded, pre, post>>

\* Book.withId(id).update({author: ref})
UpdateBook(id, ref) ==
    /\ CanEnqueue
    /\ LET w == Model_withId(heap, cfg, state, id)
           u == Book_update(heap, w.inst, updates, ref)
       IN /\ ~u.err
          /\ handle' = w.inst
          /\ updates' = u.q
    /\ UNCHANGED <<cfg, heap, state, nextIdCache, result, threw, folded, pre, post>>

\* Author.withId(id).delete()
DeleteAuthor(id) ==
    /\ CanEnqueue
    /\ updates' = Author_delete(heap, state, updates, id)
    /\ UNCHANGED <<cfg, heap, state, nextIdCache, handle, result, threw, folded,
                   pre, post>>

\* Model.getNextState() of the model of the store: the fold of the actions
\* of the queue that are the model's.
GetNextStateOf(modelName) ==
    /\ Len(Items(heap, state)) + NumCreates(updates) <= MaxItems
    /\ LET g == Model_getNextState(heap, cfg, state,
                                   Session_getUpdatesFor(modelName, updates))
       IN /\ Install(g.h, state, updates, handle, g.r)
          /\ threw' = g.err
          /\ post' = g
    /\ pre' = [h |-> heap, s |-> state, q |-> updates, again |-> folded]
    /\ folded' = TRUE
    /\ UNCHANGED <<cfg, nextIdCache>>

NextBooks ==
    \/ \E userProps \in BookProps : CreateBook(userProps)
    \/ \E id \in Ids, ref \in Refs(Ids \cup {Null}) : UpdateBook(id, ref)
    \/ \E id \in Ids : DeleteAuthor(id)
    \/ GetNextStateOf("Book")
    \/ Commit
    \/ Discard

SpecBooks == InitBooks /\ [][NextBooks]_vars

\* ---- a many-to-many relation: Book.genres = many('Genre'); the store is
\* the one of the through model BookGenres, which has the default (indexed)
\* backend options and rows {id, fromBookId, toGenreId}.  The Book and the
\* Genre store hold an entity for every identifier of Ids.

\* The values of a field of the entities of an indexed branch, for a
\* sequence of their identifiers.
Project(h, st, idArr, field) ==
    [i \in DOMAIN idArr |-> h[ById(h, st)[idArr[i]]].f[field]]

\* The elements of a that are not in b, in the order of a.
Difference(a, b) ==
    LET absent(x) == x \notin Range(b)
    IN SelectSeq(a, absent)

\* utils.arrayDiffActions(sourceArr, targetArr): the ids to delete (of the
\* source and not of the target) and to add (of the target and not of the
\* source); null when there are neither.
ArrayDiffActions(sourceArr, targetArr) ==
    LET add == Difference(targetArr, sourceArr)
        del == Difference(sourceArr, targetArr)
    IN [isNull |-> add = <<>> /\ del = <<>>, delete |-> del, add |-> add]

\* The rows of the through store with the entity on one side and one of the
\* identifiers on the other.
Rows(h, st, field, id, otherField, otherIds) ==
    LET among(row) == h[ById(h, st)[row]].f[otherField] \in Range(otherIds)
    IN SelectSeq(Related(h, st, field, id), among)

\* this[key].remove(...ids) of the forward accessor of book id: the rows of
\* the last folded state that relate the book to one of the ids are
\* deleted.
Genres_remove(h, st, q, id, ids) ==
    QuerySet_delete("BookGenres", q, Rows(h, st, "fromBookId", id, "toGenreId", ids))

\* this[key].add(...ids) of the forward accessor of book id: one create of
\* the through model for each id: [h, q, cache, err].
RECURSIVE Genres_add(_, _, _, _, _, _, _)
Genres_add(h, b, st, q, cache, id, ids) ==
    IF ids = <<>> THEN [h |-> h, q |-> q, cache |-> cache, err |-> FALSE]
    ELSE LET c == Model_create(h, b, st, q, cache,
                               [fromBookId |-> id, toGenreId |-> Head(ids)])
         IN IF c.err THEN [h |-> h, q |-> q, cache |-> cache, err |-> TRUE]
            ELSE Genres_add(c.h, b, st, Stamp("BookGenres", c.q), c.cache,
                            id, Tail(ids))

\* this[key].clear() of the accessor of the entity on the side `field`: the
\* rows of the last folded state that mention the entity are deleted.
Genres_clear(h, st, q, field, id) ==
    QuerySet_delete("BookGenres", q, Related(h, st, field, id))

\* book.update({genres: refs}) that adds the new identifiers before it
\* removes the old ones.
Book_updateGenresAddFirst(h, b, st, q, cache, id, refs) ==
    LET currentIds == Project(h, st, Related(h, st, "fromBookId", id), "toGenreId")
        normalizedNewIds == [i \in DOMAIN refs |-> NormalizeEntity(refs[i])]
        diffActions == ArrayDiffActions(currentIds, normalizedNewIds)
        added == IF ~diffActions.isNull /\ diffActions.add # <<>>
                 THEN Genres_add(h, b, st, q, cache, id, diffActions.add)
                 ELSE [h |-> h, q |-> q, cache |-> cache, err |-> FALSE]
        removed == IF ~diffActions.isNull /\ diffActions.delete # <<>>
                   THEN Genres_remove(h, st, added.q, id, diffActions.delete)
                   ELSE added.q
        update == [UpdateAction(<<id>>, Patcher("obj", EmptyObj))
                      EXCEPT !.user = [genres |-> normalizedNewIds]]
    IN [h |-> added.h, q |-> Model_addUpdateOf("Book", removed, update),
        cache |-> added.cache, err |-> added.err]

\* book.update({genres: refs}) of the book of identifier id:
\* [h, q, cache, err].  The UPDATE records the list the caller gave in
\* `user`; its updater is the merge object without the genres key.
Book_updateGenres(h, b, st, q, cache, id, refs) ==
    LET currentIds == Project(h, st, Related(h, st, "fromBookId", id), "toGenreId")
        normalizedNewIds == [i \in DOMAIN refs |-> NormalizeEntity(refs[i])]
        diffActions == ArrayDiffActions(currentIds, normalizedNewIds)
        removed == IF ~diffActions.isNull /\ diffActions.delete # <<>>
                   THEN Genres_remove(h, st, q, id, diffActions.delete)
                   ELSE q
        added == IF ~diffActions.isNull /\ diffActions.add # <<>>
                 THEN Genres_add(h, b, st, removed, cache, id, diffActions.add)
                 ELSE [h |-> h, q |-> removed, cache |-> cache, err |-> FALSE]
        update == [UpdateAction(<<id>>, Patcher("obj", EmptyObj))
                      EXCEPT !.user = [genres |-> normalizedNewIds]]
    IN [h |-> added.h, q |-> Model_addUpdateOf("Book", added.q, update),
        cache |-> added.cache, err |-> added.err]

\* instance.delete() of a book or a genre: the DELETE of the entity, then
\* _onDelete clears the many-to-many accessor of its side.
Related_delete(h, st, q, modelName, field, id) ==
    Genres_clear(h, st, Model_addUpdateOf(modelName, q, DeleteAction(<<id>>)),
                 field, id)

\* The lists a caller gives for the genres of a book: identifiers, or
\* instances.
RefLists ==
    {[i \in DOMAIN SortedSeq(S) |->
         IF isModel THEN [isModel |-> TRUE, getId |-> SortedSeq(S)[i]]
         ELSE [isModel |-> FALSE, value |-> SortedSeq(S)[i]]] :
       S \in SUBSET Ids, isModel \in BOOLEAN}

\* Every call on a book or a genre enqueues one action of its own model,
\* besides those of the through store: a session makes at most MaxQueue
\* calls.
CanCall ==
    /\ ~folded
    /\ Len(updates) - Len(Session_getUpdatesFor("BookGenres", updates)) < MaxQueue

\* Book.withId(id).update({genres: refs})
UpdateGenres(id, refs) ==
    /\ CanCall
    /\ LET c == Book_updateGenres(heap, cfg, state, updates, nextIdCache, id, refs)
       IN /\ ~c.err
          /\ Len(Items(heap, state)) + NumCreates(c.q) <= MaxItems
          /\ c.cache # nextIdCache => c.cache <= MaxId + 1
          /\ heap' = c.h
          /\ updates' = c.q
          /\ nextIdCache' = c.cache
    /\ UNCHANGED <<cfg, state, handle, result, threw, folded, pre, post>>

\* Book.withId(id).delete()
DeleteBook(id) ==
    /\ CanCall
    /\ updates' = Related_delete(heap, state, updates, "Book", "fromBookId", id)
    /\ UNCHANGED <<cfg, heap, state, nextIdCache, handle, result, threw, folded,
                   pre, post>>

\* Genre.withId(id).delete()
DeleteGenre(id) ==
    /\ CanCall
    /\ updates' = Related_delete(heap, state, updates, "Genre", "toGenreId", id)
    /\ UNCHANGED <<cfg, heap, state, nextIdCache, handle, result, threw, folded,
                   pre, post>>

NextGenres ==
    \/ \E id \in Ids, refs \in RefLists : UpdateGenres(id, refs)
    \/ \E id \in Ids : DeleteBook(id)
    \/ \E id \in Ids : DeleteGenre(id)
    \/ GetNextStateOf("BookGenres")
    \/ Commit
    \/ Discard

SpecGenres == InitBooks /\ [][NextGenres]_vars

\* ---- a one-to-one relation: the same two models with Book.author declared
\* as oneToOne('Author'); create and update treat the field as they treat a
\* foreign key.

\* _onDelete that enqueues the UPDATE without testing whether there is a
\* related instance.
Author_onDeleteOneToOneAlways(h, st, q, id) ==
    LET related == Related(h, st, "author", id)
    IN QuerySet_update("Book", q,
                       IF related # <<>> THEN <<Head(related)>> ELSE <<>>,
                       [author |-> Null])

\* _onDelete of an Author instance whose virtual field book is the reverse
\* of the one-to-one field: this[key] is the book of the last folded state
\* that holds the author (the first one in store order), or null; the
\* assignment to its author field enqueues the UPDATE of that book.
Author_onDeleteOneToOne(h, st, q, id) ==
    LET related == Related(h, st, "author", id)
    IN IF related # <<>>
       THEN QuerySet_update("Book", q, <<Head(related)>>, [author |-> Null])
       ELSE q

\* Author.withId(id).delete()
DeleteAuthorOneToOne(id) ==
    /\ CanEnqueue
    /\ updates' = Author_onDeleteOneToOne(heap, state,
                      Model_addUpdateOf("Author", updates, DeleteAction(<<id>>)), id)
    /\ UNCHANGED <<cfg, heap, state, nextIdCache, handle, result, threw, folded,
                   pre, post>>

NextOneToOne ==
    \/ \E userProps \in BookProps : CreateBook(userProps)
    \/ \E id \in Ids, ref \in Refs(Ids \cup {Null}) : UpdateBook(id, ref)
    \/ \E id \in Ids : DeleteAuthorOneToOne(id)
    \/ GetNextStateOf("Book")
    \/ Commit
    \/ Discard

SpecOneToOne == InitBooks /\ [][NextOneToOne]_vars

\* ------------------------------------------------------------- calls
\* Calls of the Model class over the states the reducer builds, in a session
\* whose queue is empty.  After a call, `pre` holds the heap and the state
\* it read, its name and its argument, `post` what it returned.

\* The snapshot of a call.
Called(call, h, s) == [h |-> h, s |-> s, q |-> <<>>, again |-> FALSE, call |-> call]

\* Model.withId(id)
WithId(id) ==
    /\ LET w == Model_withId(heap, cfg, state, id)
       IN post' = [h |-> heap, r |-> w.inst.fields, err |-> w.err, inst |-> w.inst]
    /\ pre' = Called("withId", heap, state) @@ [id |-> id]
    /\ updates' = <<>>
    /\ UNCHANGED <<cfg, heap, state, nextIdCache, handle, result, threw, folded>>

\* Whether a value counts as true in a condition.
Truthy(v) == v \notin {Undefined, Null, NaN, 0}

\* Model.createOrMergeById(userProps): [h, q, cache, err].  idValue is never
\* the string 'undefined'; model.id reads the getter of the field named id.
Model_createOrMergeById(h, b, st, q, cache, userProps) ==
    LET idValue == IF "id" \in DOMAIN userProps THEN userProps["id"] ELSE Undefined
        model == Model_withId(h, b, st, idValue)
        id == IF "id" \in model.inst.fieldNames THEN model.inst.vals["id"]
              ELSE Undefined
    IN IF idValue = Null \/ model.err
       THEN [h |-> h, q |-> q, cache |-> cache, err |-> TRUE]
       ELSE IF Truthy(id)
            THEN LET u == Instance_update(h, model.inst, q, userProps)
                 IN [h |-> h, q |-> u.q, cache |-> cache, err |-> u.err]
            ELSE LET c == Model_create(h, b, st, q, cache, userProps)
                 IN [h |-> c.h, q |-> c.q, cache |-> c.cache, err |-> c.err]

\* The properties a caller gives to createOrMergeById: with an id, with
\* null as id, or without the id property.
MergeProps == [name : Names] \cup [id : Ids \cup {Null}, name : Names]

\* Model.createOrMergeById(userProps) as the first call of a session; `post`
\* holds the session's queue after the call.
CreateOrMergeById(userProps) ==
    /\ LET c == Model_createOrMergeById(heap, cfg, state, <<>>, Undefined, userProps)
       IN post' = [h |-> c.h, r |-> NoAddr, err |-> c.err, q |-> c.q]
    /\ pre' = Called("createOrMergeById", heap, state) @@ [userProps |-> userProps]
    /\ updates' = <<>>
    /\ UNCHANGED <<cfg, heap, state, nextIdCache, handle, result, threw, folded>>

\* Model.accessList()
AccessList ==
    /\ post' = [h |-> heap, r |-> NoAddr, err |-> FALSE,
                list |-> Backend_accessList(heap, cfg, state)]
    /\ pre' = Called("accessList", heap, state)
    /\ updates' = <<>>
    /\ UNCHANGED <<cfg, heap, state, nextIdCache, handle, result, threw, folded>>

NextCalls ==
    \/ NextReducer
    \/ AccessList
    \/ \E id \in Ids : WithId(id)
    \/ \E userProps \in MergeProps : CreateOrMergeById(userProps)

SpecCalls == InitReducer /\ [][NextCalls]_vars

\* ------------------------------------------------------------- connect
\* The Model class connected to one session after another.  Here cfg holds,
\* besides the options of the Backend instance of _sessionCache.backend
\* (indexById, withMutations), the statics of the class they come from:
\* `declared`, whether the class declares `backend` as a method that returns
\* a new options object or as an options object; `optsMutate`, whether that
\* declared options object has withMutations: true; `session`, the value of
\* _session: its kind, whether it is truthy (`connected`) and what its
\* withMutations property gives; `cached`, whether _sessionCache.backend is
\* set.  The class declares no option but the
\* defaults.

\* Model.getBackend(): the statics afterwards.  _getBackendOpts returns a
\* new object for a method and the declared object itself otherwise; the
\* Backend constructor copies the options over its defaults.
Model_getBackend(c) ==
    LET mutate == c.session.connected /\ c.session.withMutations
        opts == IF c.declared = "method" THEN mutate ELSE c.optsMutate \/ mutate
    IN IF c.cached THEN c
       ELSE [c EXCEPT !.cached = TRUE,
                      !.withMutations = opts,
                      !.optsMutate = IF c.declared = "method" THEN @ ELSE opts]

\* The values a caller may give to connect: a Session instance, an object
\* that is no Session (with or without a truthy withMutations property), or
\* nothing.
NoSession == [kind |-> "undefined", connected |-> FALSE, withMutations |-> FALSE]
Sessions == [kind : {"Session"}, connected : {TRUE}, withMutations : BOOLEAN]
ConnectArgs ==
    Sessions \cup [kind : {"Object"}, connected : {TRUE}, withMutations : BOOLEAN]
             \cup {NoSession}

\* !v: a primitive boolean.
JsNot(v) == [kind |-> "boolean", connected |-> ~v.connected, withMutations |-> FALSE]
\* v instanceof Session: false for every primitive.
InstanceOfSession(v) == v.kind = "Session"

\* The test that guards connect, `!session instanceof Session`: the
\* negation binds first.
Model_connectThrows(session) == InstanceOfSession(JsNot(session))

\* Model.connect(session): the statics afterwards.
Model_connect(c, session) ==
    IF Model_connectThrows(session) THEN c
    ELSE [c EXCEPT !.session = session, !.cached = FALSE]

InitConnect ==
    /\ \E declared \in {"method", "object"} :
          cfg = [indexById |-> TRUE, withMutations |-> FALSE,
                 declared |-> declared, optsMutate |-> FALSE,
                 session |-> NoSession,
                 cached |-> FALSE]
    /\ LET d == Backend_getDefaultState(<<>>, cfg)
       IN heap = d.h /\ state = d.r
    /\ updates = <<>>
    /\ nextIdCache = Undefined
    /\ handle = NoInstance
    /\ result = NoAddr
    /\ threw = FALSE
    /\ folded = FALSE
    /\ pre = NoSnapshot
    /\ post = NoOutcome

\* Model.connect(session); the session cache is cleared unless the call
\* throws.
Connect(session) ==
    /\ cfg' = Model_connect(cfg, session)
    /\ nextIdCache' = IF Model_connectThrows(session) THEN nextIdCache ELSE Undefined
    /\ threw' = Model_connectThrows(session)
    /\ UNCHANGED <<heap, state, updates, handle, result, folded, pre, post>>

\* Model.getBackend()
GetBackend ==
    /\ cfg' = Model_getBackend(cfg)
    /\ UNCHANGED <<heap, state, updates, nextIdCache, handle, result, threw,
                   folded, pre, post>>

\* Model.updateReducer with the backend getBackend has cached.
ReduceWithBackend ==
    /\ cfg.cached
    /\ NextReducer

NextConnect ==
    \/ \E session \in Sessions : Connect(session)
    \/ GetBackend
    \/ ReduceWithBackend

SpecConnect == InitConnect /\ [][NextConnect]_vars

\* Model.updateReducer for a CREATE or a DELETE with the backend getBackend
\* has cached.
InsertOrDeleteWithBackend ==
    /\ cfg.cached
    /\ \/ \E props \in [id : Ids, name : Names] : ReduceCreate(props)
       \/ \E ids \in IdArrs : ReduceDelete(ids)

\* Callers that give connect any value.
NextConnectArgs ==
    \/ \E session \in ConnectArgs : Connect(session)
    \/ GetBackend
    \/ InsertOrDeleteWithBackend

SpecConnectArgs == InitConnect /\ [][NextConnectArgs]_vars

\* ------------------------------------------------------------- claims
\* The identifier a pending CREATE carries.
CreatedId(h, a) == IdOf(h[a.payload].f)

\* items holds no identifier twice and exactly the keys of itemsById.
WellIndexed(h, s) ==
    LET items == Items(h, s)
    IN /\ \A i, j \in DOMAIN items : items[i] = items[j] => i = j
       /\ Range(items) = DOMAIN ById(h, s)

\* The explicit identifiers of the CREATEs of q are new: not in the state s
\* and not carried by an earlier CREATE of q.
ExplicitIdsNew(h, s, q) ==
    \A j \in DOMAIN q :
        (q[j].type = "CREATE" /\ ~q[j].auto) =>
            /\ CreatedId(h, q[j]) \notin StoreIds(h, s)
            /\ \A i \in 1..(j - 1) :
                  q[i].type = "CREATE" => CreatedId(h, q[i]) # CreatedId(h, q[j])

\* C1: in the indexed form, a fold over a state whose items are the keys of
\* itemsById, without duplicate, returns such a state again (here for
\* batches whose explicit identifiers are all new).
C1_ItemsAreTheKeys ==
    (/\ folded /\ ~threw /\ cfg.indexById /\ pre.s # NoAddr
     /\ WellIndexed(pre.h, pre.s)
     /\ ExplicitIdsNew(pre.h, pre.s, pre.q))
    => WellIndexed(post.h, post.r)

\* What can be read from a state: the cells reachable from it, numbered in
\* order of first visit.
ReadableState(h, s) == IF s = NoAddr THEN <<>> ELSE Compact(h, <<s>>).h

C3_AssignedValueIsFolded ==
    (folded /\ Len(pre.q) = 1 /\ pre.q[1].type = "UPDATE" /\ ~pre.q[1].hasArgs)
    => /\ ~threw
       /\ Backend_accessId(post.h, cfg, post.r, pre.q[1].raw["id"]) # NoAddr
       /\ post.h[Backend_accessId(post.h, cfg, post.r, pre.q[1].raw["id"])].f["name"]
             = pre.q[1].raw["name"]

\* C4: getNextState over a defined state and a queue of one action enqueued
\* through a public mutation call returns a state.
C4_FoldReturnsAState ==
    (folded /\ pre.s # NoAddr /\ Len(pre.q) = 1) => ~threw

\* C5: in the indexed form, the identifier create assigns is not in the
\* store's state, differs from the identifier of every CREATE pending before
\* it and is greater than every identifier assigned before it in the batch.
C5_AssignedIdsAreNew ==
    (~folded /\ state # NoAddr /\ cfg.indexById) =>
        \A j \in DOMAIN updates :
            (updates[j].type = "CREATE" /\ updates[j].auto) =>
                /\ CreatedId(heap, updates[j]) \notin StoreIds(heap, state)
                /\ \A i \in 1..(j - 1) :
                      updates[i].type = "CREATE" =>
                         /\ CreatedId(heap, updates[i]) # CreatedId(heap, updates[j])
                         /\ updates[i].auto =>
                               CreatedId(heap, updates[i]) < CreatedId(heap, updates[j])

\* The greatest identifier of a non-empty set.
MaxOf(S) == CHOOSE x \in S : \A y \in S : y <= x

\* C6: when the first call of a session is a create without identifier, the
\* identifier assigned is 0 over an empty state and the greatest identifier
\* of the state plus one otherwise, in the indexed and in the flat form.
C6_FirstAssignedId ==
    (/\ ~folded /\ state # NoAddr /\ updates # <<>>
     /\ updates[1].type = "CREATE" /\ updates[1].auto)
    => CreatedId(heap, updates[1])
          = IF StoreIds(heap, state) = {} THEN 0
            ELSE MaxOf(StoreIds(heap, state)) + 1

\* C7: after create(fields) with an identifier and the fold, withId of that
\* identifier on the resulting state gives a handle whose toPlain is fields.
C7_CreateThenWithId ==
    (/\ folded /\ ~threw /\ pre.s # NoAddr
     /\ Len(pre.q) = 1 /\ pre.q[1].type = "CREATE" /\ ~pre.q[1].auto)
    => /\ ~Model_withId(post.h, cfg, post.r, pre.q[1].user["id"]).err
       /\ Model_withId(post.h, cfg, post.r, pre.q[1].user["id"]).inst.fields # NoAddr
       /\ Instance_toPlain(post.h,
                           Model_withId(post.h, cfg, post.r, pre.q[1].user["id"]).inst)
             = pre.q[1].user

\* What the CREATEs of q add to the order sequence: identifiers in the
\* indexed form, the entities themselves in the flat form.
Created(h, b, q) ==
    [i \in DOMAIN q |-> IF b.indexById THEN CreatedId(h, q[i]) ELSE q[i].payload]

\* C8: the fold of a batch of CREATEs returns the order sequence it was given
\* followed by the created entries in creation order; from the indexed
\* default state, n creates without identifier give items = [0, ..., n-1]
\* and itemsById mapping i to the i-th field mapping with id i.
C8_CreateAppends ==
    (/\ folded /\ ~threw /\ pre.s # NoAddr /\ pre.q # <<>>
     /\ \A i \in DOMAIN pre.q : pre.q[i].type = "CREATE")
    => /\ Items(post.h, post.r) = Items(pre.h, pre.s) \o Created(pre.h, cfg, pre.q)
       /\ (/\ cfg.indexById
           /\ Items(pre.h, pre.s) = <<>> /\ DOMAIN ById(pre.h, pre.s) = {}
           /\ \A i \in DOMAIN pre.q : pre.q[i].auto)
          => /\ Items(post.h, post.r) = [i \in DOMAIN pre.q |-> i - 1]
             /\ DOMAIN ById(post.h, post.r) = {i - 1 : i \in DOMAIN pre.q}
             /\ \A i \in DOMAIN pre.q :
                   post.h[ById(post.h, post.r)[i - 1]].f
                      = Assign(pre.q[i].user, "id" :> (i - 1))

\* Two creates without identifier, of different names, folded over the
\* indexed default state.
C8_Witness ==
    /\ folded /\ ~threw /\ pre.s # NoAddr
    /\ \A i \in DOMAIN pre.q : pre.q[i].type = "CREATE"
    /\ cfg.indexById /\ Len(pre.q) = 2
    /\ Items(pre.h, pre.s) = <<>>
    /\ \A i \in DOMAIN pre.q : pre.q[i].auto
    /\ Items(post.h, post.r) = <<0, 1>>
    /\ pre.q[1].user # pre.q[2].user

\* The identifiers of an order sequence, in order.
IdSeq(h, b, s) ==
    LET items == Items(h, s)
    IN IF b.indexById THEN items
       ELSE [i \in DOMAIN items |-> IdOf(h[items[i]].f)]

\* The records of a state whose identifier is not in idArr, by position in
\* the flat form and by key in the indexed form, are in h2/s2 the objects
\* they were in h1/s1, with the same fields.
OthersKept(b, h1, s1, h2, s2, idArr) ==
    IF b.indexById
    THEN \A id \in DOMAIN ById(h1, s1) \ Range(idArr) :
            /\ id \in DOMAIN ById(h2, s2)
            /\ ById(h2, s2)[id] = ById(h1, s1)[id]
            /\ h2[ById(h2, s2)[id]] = h1[ById(h1, s1)[id]]
    ELSE \A i \in DOMAIN Items(h1, s1) :
            IdOf(h1[Items(h1, s1)[i]].f) \notin Range(idArr) =>
               /\ i \in DOMAIN Items(h2, s2)
               /\ Items(h2, s2)[i] = Items(h1, s1)[i]
               /\ h2[Items(h2, s2)[i]] = h1[Items(h1, s1)[i]]

\* C9: the state an UPDATE returns has the identifiers of the state it was
\* given, in the same order, and every record whose identifier is not in
\* idArr is the same object with the same fields; in the indexed
\* copy-on-write form the order sequence is the same array.
C9_UpdateChangesOnlyAffected ==
    (updates # <<>> /\ updates[1].type = "UPDATE" /\ ~post.err)
    => /\ OthersKept(cfg, pre.h, pre.s, post.h, post.r, updates[1].idArr)
       /\ StoreIds(post.h, post.r) = StoreIds(pre.h, pre.s)
       /\ IdSeq(post.h, cfg, post.r) = IdSeq(pre.h, cfg, pre.s)
       /\ (cfg.indexById /\ ~cfg.withMutations) => post.h[post.r].arr = pre.h[pre.s].arr

\* An object patcher whose every property is held, with that value, by every
\* record of the state whose identifier is in idArr.
RepeatsStored(h, b, s, idArr, p) ==
    /\ p.t = "obj"
    /\ \A a \in 1..Len(h) :
          (/\ h[a].k = "obj"
           /\ IF b.indexById
              THEN \E id \in Range(idArr) \cap DOMAIN ById(h, s) : ById(h, s)[id] = a
              ELSE a \in Range(Items(h, s)) /\ IdOf(h[a].f) \in Range(idArr))
          => \A key \in DOMAIN p.m : key \in DOMAIN h[a].f /\ h[a].f[key] = p.m[key]

\* C10: update returns the state it was given when idArr is empty or the
\* patcher is an object that only repeats what the affected records hold.
C10_NoChangeSameState ==
    (/\ updates # <<>> /\ updates[1].type = "UPDATE" /\ ~post.err
     /\ \/ updates[1].idArr = <<>>
        \/ RepeatsStored(pre.h, cfg, pre.s, updates[1].idArr, updates[1].updater))
    => post.r = pre.s

\* A copy-on-write update of a stored record with an object that repeats its
\* name.
C10_Witness ==
    /\ updates # <<>> /\ updates[1].type = "UPDATE" /\ ~post.err
    /\ ~cfg.withMutations
    /\ updates[1].idArr # <<>>
    /\ Range(updates[1].idArr) \subseteq StoreIds(pre.h, pre.s)
    /\ DOMAIN updates[1].updater.m # {}
    /\ RepeatsStored(pre.h, cfg, pre.s, updates[1].idArr, updates[1].updater)
    /\ post.r = pre.s

\* The record an entry of the order sequence stands for: the entry itself in
\* the flat form, the record under that key in the indexed form (NoAddr when
\* there is none).
RecordOf(h, b, s, x) ==
    IF b.indexById
    THEN IF x \in DOMAIN ById(h, s) THEN ById(h, s)[x] ELSE NoAddr
    ELSE x

\* The identifier an entry of the order sequence stands for.
EntryId(h, b, x) == IF b.indexById THEN x ELSE IdOf(h[x].f)

\* C11: delete returns the order sequence it was given without the entries
\* whose identifier is in idsToDelete, the others in their order and with
\* their fields; in the indexed form the index map loses exactly the keys in
\* idsToDelete.
C11_DeleteRemovesExactly ==
    (updates # <<>> /\ updates[1].type = "DELETE" /\ ~post.err)
    => LET ids == Range(updates[1].ids)
           keep(x) == EntryId(pre.h, cfg, x) \notin ids
           kept == SelectSeq(Items(pre.h, pre.s), keep)
       IN /\ Items(post.h, post.r) = kept
          /\ cfg.indexById =>
                /\ DOMAIN ById(post.h, post.r) = DOMAIN ById(pre.h, pre.s) \ ids
                /\ \A id \in DOMAIN ById(post.h, post.r) :
                      /\ ById(post.h, post.r)[id] = ById(pre.h, pre.s)[id]
                      /\ post.h[ById(post.h, post.r)[id]] = pre.h[ById(pre.h, pre.s)[id]]
          /\ ~cfg.indexById =>
                \A i \in DOMAIN kept : post.h[kept[i]] = pre.h[kept[i]]

\* C12: in copy-on-write mode every object reachable from the state given to
\* insert, update, order or delete holds after the call what it held before.
C12_CopyOnWriteKeepsGivenState ==
    (updates # <<>> /\ ~cfg.withMutations)
    => \A a \in Range(Reach(pre.h, <<pre.s>>, <<>>)) : post.h[a] = pre.h[a]

\* A copy-on-write call on a state that holds an entity and that returned
\* another state.
C12_Witness ==
    /\ updates # <<>> /\ ~cfg.withMutations /\ ~post.err
    /\ updates[1].type \in {"UPDATE", "DELETE"}
    /\ Items(pre.h, pre.s) # <<>>
    /\ post.r # pre.s
    /\ ReadableState(post.h, post.r) # ReadableState(pre.h, pre.s)

\* The bijections of 1..n.
Perms(n) == {f \in [1..n -> 1..n] : \A i, j \in 1..n : f[i] = f[j] => i = j}

\* The rank of an entry of the order sequence in the sort by `key`.
EntryRank(h, b, s, x, key) ==
    IF RecordOf(h, b, s, x) = NoAddr THEN SortRank(EmptyObj, key)
    ELSE SortRank(h[RecordOf(h, b, s, x)].f, key)

\* C13: the order sequence ORDER returns is the one it was given, sorted
\* ascending by the key, entries of equal rank in their former order; the
\* index map is the one given, with the same contents.
C13_OrderIsStableSort ==
    (updates # <<>> /\ updates[1].type = "ORDER" /\ ~post.err)
    => LET old == Items(pre.h, pre.s)
           new == Items(post.h, post.r)
           rank(x) == EntryRank(pre.h, cfg, pre.s, x, updates[1].key)
       IN /\ Len(new) = Len(old)
          /\ \E f \in Perms(Len(old)) :
                /\ \A i \in DOMAIN new : new[i] = old[f[i]]
                /\ \A i, j \in DOMAIN new :
                      i < j => \/ rank(new[i]) < rank(new[j])
                               \/ rank(new[i]) = rank(new[j]) /\ f[i] < f[j]
          /\ cfg.indexById =>
                /\ cfg.withMutations \/ post.h[post.r].map = pre.h[pre.s].map
                /\ ById(post.h, post.r) = ById(pre.h, pre.s)

\* The empty state of representation b.
IsDefaultState(h, b, s) ==
    /\ s # NoAddr
    /\ h[s].k = "branch"
    /\ Items(h, s) = <<>>
    /\ IF b.indexById THEN h[s].map # NoAddr /\ DOMAIN ById(h, s) = {}
       ELSE h[s].map = NoAddr

\* C14: getNextState called while the state is undefined returns the empty
\* state of the configured representation, whatever the queue holds.
C14_UndefinedStateGivesDefault ==
    (folded /\ pre.s = NoAddr) => ~threw /\ IsDefaultState(post.h, cfg, post.r)

\* getNextState called with a pending action while the state is undefined.
C14_Witness ==
    folded /\ pre.s = NoAddr /\ pre.q # <<>> /\ ~threw /\ result # NoAddr

\* C15: getNextState with an empty queue over a defined state returns a
\* state equal to it (also when that state is itself the result of a fold
\* with an empty queue).
C15_EmptyQueueIsNoOp ==
    (folded /\ pre.s # NoAddr /\ pre.q = <<>>)
    => /\ ~threw
       /\ ReadableState(post.h, post.r) = ReadableState(pre.h, pre.s)

\* getNextState with an empty queue over a state that holds an entity.
C15_Witness ==
    /\ folded /\ pre.s # NoAddr /\ pre.q = <<>> /\ ~threw
    /\ Items(pre.h, pre.s) # <<>>

Matching(h, b, s, lookupObj) ==
    {i \in DOMAIN Items(h, s) :
        /\ RecordOf(h, b, s, Items(h, s)[i]) # NoAddr
        /\ \A key \in DOMAIN lookupObj :
              /\ key \in DOMAIN h[RecordOf(h, b, s, Items(h, s)[i])].f
              /\ h[RecordOf(h, b, s, Items(h, s)[i])].f[key] = lookupObj[key]}

\* C20: get throws when no entity matches the lookup object, throws another
\* error when more than one matches, and returns the matching entity when
\* exactly one matches.
C20_GetExactlyOne ==
    ("lookupObj" \in DOMAIN pre)
    => LET hits == Matching(pre.h, cfg, pre.s, pre.lookupObj)
       IN /\ hits = {} => post.err
          /\ Cardinality(hits) > 1 =>
                post.err /\ post.msg \notin {NoEntitiesFound, InstanceNotFound}
          /\ Cardinality(hits) = 1 =>
                /\ ~post.err
                /\ \E i \in hits :
                      post.r = RecordOf(pre.h, cfg, pre.s, Items(pre.h, pre.s)[i])

\* The entities of an indexed branch whose field holds the value.
Holding(h, s, field, value) ==
    {id \in DOMAIN ById(h, s) :
        /\ field \in DOMAIN h[ById(h, s)[id]].f
        /\ h[ById(h, s)[id]].f[field] = value}

\* Whether the action sets the author of a book to the value: a create or an
\* update the caller issued with that author.
SetsAuthor(h, u, value) ==
    /\ u.meta = "Book"
    /\ \/ u.type = "CREATE" /\ h[u.payload].f["author"] = value
       \/ u.type = "UPDATE" /\ u.updater.m = [author |-> value]

\* C18: once an author is deleted through its handle, the fold of the batch
\* leaves no book whose author field holds the author's identifier, whatever
\* was enqueued before the delete (an action enqueued after the delete that
\* gives a book this author again is left aside).
C18_DeletedTargetIsUnreferenced ==
    (folded /\ ~threw /\ ~pre.again)
    => \A i \in DOMAIN pre.q :
          (/\ pre.q[i].meta = "Author"
           /\ pre.q[i].type = "DELETE"
           /\ \A j \in DOMAIN pre.q :
                 j > i => ~SetsAuthor(pre.h, pre.q[j], pre.q[i].ids[1]))
          => Holding(post.h, post.r, "author", pre.q[i].ids[1]) = {}

\* The batch of a session that called book.update({genres: ...}) once and
\* nothing else: its last action is the UPDATE of the book, all others are
\* actions of the through store.
OneReplacement(q) ==
    /\ q # <<>>
    /\ q[Len(q)].meta = "Book" /\ q[Len(q)].type = "UPDATE"
    /\ "genres" \in DOMAIN q[Len(q)].user
    /\ \A i \in 1..(Len(q) - 1) : q[i].meta = "BookGenres"

\* The genres related to a book in a state of the through store.
GenresOf(h, s, book) ==
    {h[ById(h, s)[row]].f["toGenreId"] : row \in Holding(h, s, "fromBookId", book)}

AddsRow(h, u, field, id) ==
    u.meta = "BookGenres" /\ u.type = "CREATE" /\ h[u.payload].f[field] = id

\* The side of the through store an entity of the model is on.
SideOf(modelName) == IF modelName = "Book" THEN "fromBookId" ELSE "toGenreId"

\* C19: once a book or a genre is deleted through its handle, the fold of
\* the batch leaves no row of the through store that mentions it on its side
\* (a row added by a call made after the delete is left aside).
C19_DeletedEntityHasNoRows ==
    (folded /\ ~threw /\ ~pre.again)
    => \A i \in DOMAIN pre.q :
          (/\ pre.q[i].meta \in {"Book", "Genre"}
           /\ pre.q[i].type = "DELETE"
           /\ \A j \in DOMAIN pre.q :
                 j > i => ~AddsRow(pre.h, pre.q[j], SideOf(pre.q[i].meta),
                                   pre.q[i].ids[1]))
          => Holding(post.h, post.r, SideOf(pre.q[i].meta), pre.q[i].ids[1]) = {}

\* Whether the last step was the call of that name.
IsCall(call) == "call" \in DOMAIN pre /\ pre.call = call

\* C21: withId of an identifier the state does not hold returns no instance
\* or throws; withId of an identifier it holds returns an instance whose id
\* is that identifier.
C21_WithIdSignalsNotFound ==
    IsCall("withId")
    => IF pre.id \notin StoreIds(pre.h, pre.s)
       THEN post.err \/ ~post.inst.has
       ELSE /\ ~post.err
            /\ post.inst.has
            /\ post.inst.fields # NoAddr
            /\ IdOf(pre.h[post.inst.fields].f) = pre.id

\* C22: createOrMergeById with props that have no id, or null as id, throws
\* and enqueues nothing.
C22_EmptyIdIsRejected ==
    (/\ IsCall("createOrMergeById")
     /\ ("id" \in DOMAIN pre.userProps => pre.userProps["id"] = Null))
    => post.err /\ post.q = <<>>

\* C26: createOrMergeById with props of identifier id enqueues one action:
\* an UPDATE of id with the props as patch when the state holds an entity of
\* that identifier, a CREATE when it holds none.
C26_MergeWhenPresent ==
    (/\ IsCall("createOrMergeById")
     /\ "id" \in DOMAIN pre.userProps
     /\ pre.userProps["id"] \in Ids)
    => /\ ~post.err
       /\ Len(post.q) = 1
       /\ IF pre.userProps["id"] \in StoreIds(pre.h, pre.s)
          THEN /\ post.q[1].type = "UPDATE"
               /\ post.q[1].idArr = <<pre.userProps["id"]>>
               /\ post.q[1].updater = Patcher("obj", pre.userProps)
          ELSE post.q[1].type = "CREATE"

\* C23: every record of an indexed store carries the key it is stored under
\* as its identifier, whatever actions were applied.
C23_IdentifierIsImmutable ==
    cfg.indexById
    => \A k \in DOMAIN ById(heap, state) : IdOf(heap[ById(heap, state)[k]].f) = k

\* C24: what the instance the caller holds gives through toPlain is what its
\* field getters captured when it was made, and the object it keeps as its
\* fields is no cell of the store's state.
C24_HandleIsSnapshot ==
    (handle.has /\ handle.fields # NoAddr /\ state # NoAddr)
    => /\ Instance_toPlain(heap, handle) = handle.vals
       /\ handle.fields \notin Range(Reach(heap, <<state>>, <<>>))

\* A branch with the keys of the configuration: the order sequence, and the
\* index map in the indexed form only.
ConfiguredKeys(h, b, s) ==
    /\ h[s].k = "branch"
    /\ h[s].arr # NoAddr
    /\ b.indexById <=> h[s].map # NoAddr

\* C25: the default state and every state the reducer returns have the
\* keys of the configuration and no other.
C25_OnlyConfiguredKeys ==
    /\ ConfiguredKeys(heap, cfg, state)
    /\ (updates # <<>> /\ ~post.err) => ConfiguredKeys(post.h, cfg, post.r)

\* A copy-on-write ORDER built a new branch for an indexed store that holds
\* entities.
C25_Witness ==
    /\ updates # <<>> /\ updates[1].type = "ORDER" /\ ~post.err
    /\ cfg.indexById /\ ~cfg.withMutations
    /\ post.r # pre.s
    /\ Items(post.h, post.r) # <<>>
    /\ ConfiguredKeys(post.h, cfg, post.r)

\* C27: accessList returns one object per entry of the order sequence, in
\* its order, with the fields of the entry's record, its identifier among
\* them.
C27_AccessListGivesRecords ==
    IsCall("accessList")
    => /\ Len(post.list) = Len(Items(pre.h, pre.s))
       /\ \A i \in DOMAIN post.list :
             LET record == RecordOf(pre.h, cfg, pre.s, Items(pre.h, pre.s)[i])
             IN /\ record # NoAddr
                /\ post.list[i].idObj = NoAddr
                /\ post.list[i].f = pre.h[record].f
                /\ "id" \in DOMAIN post.list[i].f

\* What the copy-on-write backend of the same representation returns for the
\* state and the action of the last reducer step.
CopyOnWriteOutcome ==
    Model_updateReducer(pre.h, [cfg EXCEPT !.withMutations = FALSE], pre.s, updates[1])

\* C29: a reducer step of the in-place backend returns the state it was
\* given, and that state then reads as the state the copy-on-write backend
\* returns for the same state and action; one throws when the other does.
C29_InPlaceEqualsCopyOnWrite ==
    (updates # <<>> /\ cfg.withMutations)
    => /\ post.err = CopyOnWriteOutcome.err
       /\ ~post.err =>
             /\ post.r = pre.s
             /\ ReadableState(post.h, post.r)
                   = ReadableState(CopyOnWriteOutcome.h, CopyOnWriteOutcome.r)

\* Whether the queue ends with the cascade of the delete of an author: the
\* UPDATE that sets the author field of one book to null.
EndsWithCascade(q) ==
    /\ q[Len(q)].meta = "Book"
    /\ q[Len(q)].type = "UPDATE"
    /\ q[Len(q)].updater = Patcher("obj", [author |-> Null])
    /\ Len(q[Len(q)].idArr) = 1

\* C28: the delete of an author through its handle enqueues its DELETE and,
\* when a book of the current state holds the author in its one-to-one
\* field, one UPDATE that sets the field of one such book to null; when no
\* book holds it, nothing else.
C28_OneToOneCascadeOnlyIfRelated ==
    [][(/\ ~folded /\ ~folded'
        /\ Len(updates') > Len(updates)
        /\ updates'[Len(updates) + 1].meta = "Author")
       => LET id == updates'[Len(updates) + 1].ids[1]
              related == Holding(heap, state, "author", id)
          IN /\ updates'[Len(updates) + 1].type = "DELETE"
             /\ related = {} => Len(updates') = Len(updates) + 1
             /\ related # {} =>
                   /\ Len(updates') = Len(updates) + 2
                   /\ EndsWithCascade(updates')
                   /\ updates'[Len(updates')].idArr[1] \in related]_vars

\* The author of a stored book was deleted and the cascade enqueued.
C28_Witness ==
    /\ ~folded /\ Len(updates) >= 2
    /\ updates[Len(updates) - 1].meta = "Author"
    /\ EndsWithCascade(updates)
    /\ updates[Len(updates)].idArr[1]
          \in Holding(heap, state, "author", updates[Len(updates) - 1].ids[1])

\* C30: the backend getBackend gives mutates in place exactly when the
\* session the class is connected to has withMutations.
C30_BackendFollowsSession ==
    cfg.cached
    => cfg.withMutations = (cfg.session.connected /\ cfg.session.withMutations)

\* The index of the first CREATE of a queue that holds one.
FirstCreate(q) ==
    CHOOSE j \in DOMAIN q :
        q[j].type = "CREATE" /\ \A i \in 1..(j - 1) : q[i].type # "CREATE"

\* C31: when the first create of a session gives no identifier, the
\* identifier assigned is the one nextId computes from the session's state
\* with an empty session cache, whatever the sessions before created.
C31_FirstIdIsFromSessionState ==
    (/\ ~folded /\ state # NoAddr /\ NumCreates(updates) > 0
     /\ updates[FirstCreate(updates)].auto)
    => CreatedId(heap, updates[FirstCreate(updates)])
          = Model_nextId(heap, cfg, state, Undefined).v

\* A session before this one created the entities of the state, and the
\* first create of this session was assigned the identifier after them.
C31_Witness ==
    /\ ~folded /\ state # NoAddr /\ cfg.indexById
    /\ StoreIds(heap, state) = {0}
    /\ NumCreates(updates) > 0
    /\ updates[FirstCreate(updates)].auto
    /\ CreatedId(heap, updates[FirstCreate(updates)]) = 1

\* C33: a connect whose argument is not a Session instance throws and
\* leaves the session of the class and its session cache as they were.
C33_ConnectRejectsNonSession ==
    [][\A session \in ConnectArgs \ Sessions :
          Connect(session)
          => /\ threw'
             /\ cfg'.session = cfg.session
             /\ cfg'.cached = cfg.cached
             /\ nextIdCache' = nextIdCache]_vars

\* The calls book.update({genres: ...}) of a batch, by their UPDATE.
Replacements(q) ==
    {i \in DOMAIN q : /\ q[i].meta = "Book" /\ q[i].type = "UPDATE"
                      /\ "genres" \in DOMAIN q[i].user}

\* The batch of a session that called book.update({genres: ...}) several
\* times for one book and nothing else.
SeveralReplacements(q) ==
    /\ Cardinality(Replacements(q)) >= 2
    /\ \A i \in DOMAIN q : i \in Replacements(q) \/ q[i].meta = "BookGenres"
    /\ \A i, j \in Replacements(q) : q[i].idArr = q[j].idArr

\* C32: after the fold of a batch in which several update calls gave a
\* replacement list for the genres of the same book, the genres of the book
\* are those of the last list.
C32_LastReplacementWins ==
    (folded /\ ~pre.again /\ ~threw /\ SeveralReplacements(pre.q))
    => LET last == pre.q[Len(pre.q)]
       IN GenresOf(post.h, post.r, last.idArr[1]) = Range(last.user["genres"])

====
